---- MODULE Spec2Model ----
(***************************************************************************)
(* keras_takePictures_detect_signs_move2.py: an image classifier node that *)
(* publishes the class of every camera frame on /predicted_class, and a    *)
(* behaviour node whose class_callback stores the latest class under       *)
(* command_lock while a 10 Hz thread (motion_loop) maps it to a Twist on   *)
(* /cmd_vel.                                                               *)
(*                                                                         *)
(* Velocities are written in tenths: 0.2 is 2, 0.5 is 5, -0.5 is -5.       *)
(* A Twist is the pair <<linear.x, angular.z>>.                            *)
(***************************************************************************)
EXTENDS Integers, Sequences, FiniteSets, TLC

\* ---------------------------------------------------------------- bounds
\* Threads of the subscriber of /predicted_class that may be inside
\* class_callback at once (one per publisher connection).
NumWriters == 2
\* Frames delivered to image_callback.
MaxImages == 10
\* Frames delivered to image_callback while the control loop runs as well.
SystemImages == 2

Writers == 1..NumWriters

\* ---------------------------------------------------------------- values
\* The strings motion_loop compares cmd with, and one it does not know.
KnownLabels == {"Stop", "Give_Way", "Turn_Left", "Turn_Right", "Nothing"}
Labels == KnownLabels \cup {"Pedestrian_Crossing"}

\* self.labels, read from labels.txt (index-correlated with the model's
\* output vector); Python's index i is position i + 1 here.
labels == <<"Stop", "Turn_Left", "Pedestrian_Crossing">>

\* What image_callback meets on one frame: imgmsg_to_cv2 raises
\* CvBridgeError, resize/predict raises, class_pub.publish raises, or
\* argmax returns class_index.
Frames ==
    {[kind |-> k, class_index |-> 0] :
        k \in {"CvBridgeError", "Exception", "PublishException"}}
    \cup {[kind |-> "ok", class_index |-> i] : i \in 1..Len(labels)}

\* Positions /odom reports (x, y).
Poses == {<<0, 0>>, <<1, 2>>}

\* Holders of self.command_lock.
Unlocked == [thread |-> "none", id |-> 0]
LoopThread == [thread |-> "motion_loop", id |-> 0]
WriterThread(w) == [thread |-> "class_callback", id |-> w]

NoMsg == "no_message"

\* Lines of the five rospy.loginfo_throttle calls of motion_loop.
CallSites == {122, 126, 130, 134, 138}
\* The texts they log.
LogTexts == {"PARAR", "GIRAR IZQUIERDA", "GIRAR DERECHA", "AVANZAR", "Senal desconocida"}
\* No entry in the throttle's table.
Never == -1

\* Attributes the callbacks and the control thread use.
Attributes == {"class_pub", "capture_enabled", "image_count", "debug_interval",
               "robot_x", "robot_y", "current_command", "command_lock", "cmd_vel_pub"}
\* Subscriber callbacks and the control thread, each started by a statement
\* of a constructor.
Callbacks == {"image_callback", "toggle_callback", "odom_callback",
              "class_callback", "motion_loop"}
NoLog == [level |-> "none", text |-> "", arg |-> ""]

\* The statements of ImageClassifierNode.__init__ and then
\* SignalBehaviorNode.__init__ (run in this order by the main block) that
\* create a field a callback uses, a subscription or the thread.
CtorSteps ==
    <<[line |-> 30, kind |-> "subscribe", name |-> "image_callback"],
      [line |-> 31, kind |-> "assign", name |-> "class_pub"],
      [line |-> 32, kind |-> "subscribe", name |-> "toggle_callback"],
      [line |-> 34, kind |-> "assign", name |-> "capture_enabled"],
      [line |-> 41, kind |-> "assign", name |-> "image_count"],
      [line |-> 42, kind |-> "assign", name |-> "debug_interval"],
      [line |-> 87, kind |-> "assign", name |-> "robot_x"],
      [line |-> 88, kind |-> "assign", name |-> "robot_y"],
      [line |-> 89, kind |-> "assign", name |-> "current_command"],
      [line |-> 90, kind |-> "assign", name |-> "command_lock"],
      [line |-> 92, kind |-> "assign", name |-> "cmd_vel_pub"],
      [line |-> 93, kind |-> "subscribe", name |-> "odom_callback"],
      [line |-> 94, kind |-> "subscribe", name |-> "class_callback"],
      [line |-> 99, kind |-> "start", name |-> "motion_loop"]>>
CtorDone == Len(CtorSteps) + 1

\* The fields each callback and the control thread read or write.
Uses(cb) ==
    CASE cb = "image_callback" -> {"image_count", "debug_interval", "class_pub"}
      [] cb = "toggle_callback" -> {"capture_enabled"}
      [] cb = "odom_callback" -> {"robot_x", "robot_y"}
      [] cb = "class_callback" -> {"current_command", "command_lock"}
      [] cb = "motion_loop" -> {"current_command", "command_lock", "cmd_vel_pub"}

VARIABLES
    \* ImageClassifierNode
    capture_enabled,   \* self.capture_enabled
    image_count,       \* self.image_count
    frame,             \* what the last frame met (its kind), "none" before
    cls_log,           \* log calls of the last image_callback, in order
    toggle_log,        \* state logged by the last toggle_callback
    frame_dropped,     \* some frame so far raised inside image_callback
    \* SignalBehaviorNode
    robot_x, robot_y,  \* self.robot_x, self.robot_y
    current_command,   \* self.current_command
    command_lock,      \* holder of self.command_lock
    wpc,               \* position of each class_callback thread
    msg,               \* msg.data of each class_callback invocation
    \* motion_loop (the control thread)
    pc,                \* position in motion_loop
    twist,             \* local twist
    cmd,               \* local cmd
    tick_log,          \* the log call of the current tick
    tick_pub,          \* Twists published on /cmd_vel in the current tick
    pub_result,        \* outcome of the current tick's publish call
    ticked,            \* motion_loop has entered its loop body at least once
    \* rospy
    shutdown,          \* rospy.is_shutdown()
    \* history
    updated,           \* some class_callback has assigned current_command
    last_set,          \* value of the latest class_callback that left its with-block
    last_msg,          \* msg.data of the latest class_callback that assigned
    tick_reads,        \* reads of current_command in the current tick
    pending,           \* class_callbacks completed since the loop's last read (2: two or more)
    passed,            \* the loop's last read found two or more completed since the one before
    \* rospy's logging throttle, one entry per call site of loginfo_throttle
    log_age,           \* whole seconds since the call site last emitted, Never if it has not
    cat_age,           \* the same per kind of message text emitted
    tick_emitted,      \* the log call of the current tick was emitted
    \* construction of the two nodes
    tpc,               \* position of the toggle_callback thread during construction
    ctor,              \* next statement of the constructors
    assigned,          \* attributes assigned so far
    subscribed,        \* callbacks and threads created so far
    attr_error,        \* attribute a callback found missing, "none" if none
    \* a second run of the program on the same frames and schedule whose
    \* /capture_toggle messages differ
    twin

vars == <<capture_enabled, image_count, frame, cls_log, toggle_log, frame_dropped,
          robot_x, robot_y, current_command, command_lock, wpc, msg,
          pc, twist, cmd, tick_log, tick_pub, pub_result, ticked,
          shutdown, updated, last_set, twin,
          last_msg, tick_reads, pending, passed,
          log_age, cat_age, tick_emitted,
          ctor, assigned, subscribed, attr_error, tpc>>

classifierVars == <<capture_enabled, image_count, frame, cls_log, toggle_log, frame_dropped>>
poseVars == <<robot_x, robot_y>>
loopVars == <<pc, twist, cmd, tick_log, tick_pub, pub_result, ticked>>
histVars == <<updated, last_set>>
obsVars == <<last_msg, tick_reads, pending, passed>>
throttleVars == <<log_age, cat_age, tick_emitted>>
ctorVars == <<ctor, assigned, subscribed, attr_error, tpc>>

\* ---------------------------------------------------------------- constants of the program
debug_interval == 10

\* The period of every rospy.loginfo_throttle call, in seconds.
ThrottlePeriod == 2

\* Mutant: the node starts halted.
InitCommandStop == "Stop"

\* self.current_command = "Nothing"
InitCommand == "Nothing"

\* Twist(): every field 0.0
ZeroTwist == <<0, 0>>

\* ---------------------------------------------------------------- ImageClassifierNode

\* Mutant: the publish is skipped while capture is disabled.
image_callback_publish_gated(enabled, f) ==
    IF f.kind = "ok" /\ enabled THEN labels[f.class_index] ELSE NoMsg

\* Mutant: the publish sits after the try block and sends a default class
\* when the frame raised.
image_callback_publish_after_try(enabled, f) ==
    IF f.kind = "ok" THEN labels[f.class_index]
    ELSE IF f.kind = "PublishException" THEN NoMsg
    ELSE labels[1]

\* The label image_callback hands to class_pub.publish for frame f, NoMsg if
\* it publishes none; enabled is self.capture_enabled.
image_callback_publish(enabled, f) ==
    IF f.kind = "ok" THEN labels[f.class_index] ELSE NoMsg

\* Mutant: the interval test uses the counter before its increment.
image_callback_log_before_increment(count, f) ==
    LET debug == IF (count - 1) % debug_interval = 0 THEN <<"info">> ELSE <<>>
    IN  CASE f.kind = "ok" -> debug
          [] f.kind = "CvBridgeError" -> <<"err_cvbridge">>
          [] f.kind = "Exception" -> <<"err">>
          [] f.kind = "PublishException" -> debug \o <<"err">>

\* The log calls image_callback makes for frame f when the counter is count.
image_callback_log(count, f) ==
    LET debug == IF count % debug_interval = 0 THEN <<"info">> ELSE <<>>
    IN  CASE f.kind = "ok" -> debug
          [] f.kind = "CvBridgeError" -> <<"err_cvbridge">>
          [] f.kind = "Exception" -> <<"err">>
          [] f.kind = "PublishException" -> debug \o <<"err">>

\* toggle_callback of the first run.
ToggleCallback(b) ==
    /\ capture_enabled' = b
    /\ toggle_log' = IF b THEN "ACTIVADA" ELSE "DESACTIVADA"
    /\ UNCHANGED <<image_count, frame, cls_log, frame_dropped, poseVars, current_command,
                   command_lock, wpc, msg, loopVars, shutdown, histVars, twin,
                   obsVars, throttleVars, ctorVars>>

\* toggle_callback of the second run.
TwinToggleCallback(b) ==
    /\ twin' = [twin EXCEPT !.capture_enabled = b]
    /\ UNCHANGED <<classifierVars, poseVars, current_command, command_lock,
                   wpc, msg, loopVars, shutdown, histVars,
                   obsVars, throttleVars, ctorVars>>

\* image_callback on frame f. A published label is delivered to a thread of
\* the /predicted_class subscriber, which calls class_callback with it.
ImageCallback(f) ==
    /\ image_count < MaxImages
    /\ image_count' = image_count + 1
    /\ frame' = f.kind
    /\ cls_log' = image_callback_log(image_count', f)
    /\ frame_dropped' = (frame_dropped \/ f.kind # "ok")
    /\ LET out  == image_callback_publish(capture_enabled, f)
           outT == image_callback_publish(twin.capture_enabled, f)
       IN  IF out = NoMsg /\ outT = NoMsg
           THEN UNCHANGED <<wpc, msg, twin>>
           ELSE \E w \in Writers :
                   /\ wpc[w] = "idle"
                   /\ wpc' = [wpc EXCEPT ![w] = "lock"]
                   /\ msg' = [msg EXCEPT ![w] = out]
                   /\ twin' = [twin EXCEPT !.msg[w] = outT]
    /\ UNCHANGED <<capture_enabled, toggle_log, poseVars, current_command,
                   command_lock, loopVars, shutdown, histVars,
                   obsVars, throttleVars, ctorVars>>

\* ---------------------------------------------------------------- SignalBehaviorNode

\* A message of /predicted_class from any publisher reaches class_callback.
Deliver(w, l) ==
    /\ wpc[w] = "idle"
    /\ wpc' = [wpc EXCEPT ![w] = "lock"]
    /\ msg' = [msg EXCEPT ![w] = l]
    /\ twin' = [twin EXCEPT !.msg[w] = l]
    /\ UNCHANGED <<classifierVars, poseVars, current_command, command_lock,
                   loopVars, shutdown, histVars,
                   obsVars, throttleVars, ctorVars>>

odom_callback(p) ==
    /\ robot_x' = p[1]
    /\ robot_y' = p[2]
    /\ UNCHANGED <<classifierVars, current_command, command_lock, wpc, msg,
                   loopVars, shutdown, histVars, twin,
                   obsVars, throttleVars, ctorVars>>

\* The value class_callback stores for a message, old if there is none (the
\* second run received no message where the first did).
\* Mutant: the first label received is latched; later ones do not overwrite it.
StoredLatched(old, m) == IF m = NoMsg \/ old # "Nothing" THEN old ELSE m

Stored(old, m) == IF m = NoMsg THEN old ELSE m

\* Mutant: class_callback assigns without taking command_lock first.
ClassAssignNoLock(w) ==
    /\ wpc[w] = "lock"
    /\ command_lock' = WriterThread(w)
    /\ current_command' = Stored(current_command, msg[w])
    /\ twin' = [twin EXCEPT !.current_command = Stored(@, twin.msg[w]),
                            !.msg[w] = NoMsg]
    /\ msg' = [msg EXCEPT ![w] = NoMsg]
    /\ wpc' = [wpc EXCEPT ![w] = "log"]
    /\ updated' = TRUE
    /\ last_msg' = IF msg[w] = NoMsg THEN last_msg ELSE msg[w]
    /\ pending' = IF pending = 0 THEN 1
                  ELSE IF msg[w] # current_command THEN 2 ELSE pending
    /\ UNCHANGED <<classifierVars, poseVars, loopVars, shutdown, last_set,
                   tick_reads, passed, throttleVars, ctorVars>>

\* class_callback: "with self.command_lock:" entered and
\* "self.current_command = msg.data" executed.
ClassAssign(w) ==
    /\ wpc[w] = "lock"
    /\ command_lock = Unlocked
    /\ command_lock' = WriterThread(w)
    /\ current_command' = Stored(current_command, msg[w])
    /\ twin' = [twin EXCEPT !.current_command = Stored(@, twin.msg[w]),
                            !.msg[w] = NoMsg]
    /\ msg' = [msg EXCEPT ![w] = NoMsg]
    /\ wpc' = [wpc EXCEPT ![w] = "log"]
    /\ updated' = TRUE
    /\ last_msg' = IF msg[w] = NoMsg THEN last_msg ELSE msg[w]
    /\ pending' = IF pending = 0 THEN 1
                  ELSE IF msg[w] # current_command THEN 2 ELSE pending
    /\ UNCHANGED <<classifierVars, poseVars, loopVars, shutdown, last_set,
                   tick_reads, passed, throttleVars, ctorVars>>

\* class_callback: rospy.loginfo inside the with-block, then the block is left.
ClassLogRelease(w) ==
    /\ wpc[w] = "log"
    /\ command_lock = WriterThread(w)
    /\ command_lock' = Unlocked
    /\ wpc' = [wpc EXCEPT ![w] = "idle"]
    /\ last_set' = current_command
    /\ UNCHANGED <<classifierVars, poseVars, current_command, msg, loopVars,
                   shutdown, updated, twin,
                   obsVars, throttleVars, ctorVars>>

\* ---------------------------------------------------------------- motion_loop

\* Mutant: Turn_Right turns the way Turn_Left does.
motion_twist_right_sign(c) ==
    IF c \in {"Stop", "Give_Way"} THEN <<0, 0>>
    ELSE IF c = "Turn_Left" THEN <<0, 5>>
    ELSE IF c = "Turn_Right" THEN <<0, 5>>
    ELSE IF c = "Nothing" THEN <<2, 0>>
    ELSE <<0, 0>>

\* Mutant: the else branch cruises as the Nothing branch does.
motion_twist_unknown_forward(c) ==
    IF c \in {"Stop", "Give_Way"} THEN <<0, 0>>
    ELSE IF c = "Turn_Left" THEN <<0, 5>>
    ELSE IF c = "Turn_Right" THEN <<0, -5>>
    ELSE IF c = "Nothing" THEN <<2, 0>>
    ELSE <<2, 0>>

\* The if/elif chain: the Twist for cmd.
motion_twist(c) ==
    IF c \in {"Stop", "Give_Way"} THEN <<0, 0>>
    ELSE IF c = "Turn_Left" THEN <<0, 5>>
    ELSE IF c = "Turn_Right" THEN <<0, -5>>
    ELSE IF c = "Nothing" THEN <<2, 0>>
    ELSE <<0, 0>>

\* The if/elif chain: the rospy.loginfo_throttle call for cmd.
motion_log(c) ==
    IF c \in {"Stop", "Give_Way"} THEN [level |-> "info", text |-> "PARAR", arg |-> c]
    ELSE IF c = "Turn_Left" THEN [level |-> "info", text |-> "GIRAR IZQUIERDA", arg |-> ""]
    ELSE IF c = "Turn_Right" THEN [level |-> "info", text |-> "GIRAR DERECHA", arg |-> ""]
    ELSE IF c = "Nothing" THEN [level |-> "info", text |-> "AVANZAR", arg |-> ""]
    ELSE [level |-> "info", text |-> "Senal desconocida", arg |-> c]

\* "while not rospy.is_shutdown():" and, when it enters, "twist = Twist()".
LoopCheck ==
    /\ pc = "check"
    /\ IF shutdown
       THEN /\ pc' = "done"
            /\ UNCHANGED <<twist, tick_log, tick_pub, pub_result, ticked, twin,
                           tick_reads, tick_emitted>>
       ELSE /\ pc' = "acquire"
            /\ ticked' = TRUE
            /\ twist' = ZeroTwist
            /\ tick_log' = NoLog
            /\ tick_pub' = <<>>
            /\ pub_result' = "none"
            /\ twin' = [twin EXCEPT !.tick_pub = <<>>]
            /\ tick_reads' = 0
            /\ tick_emitted' = FALSE
    /\ UNCHANGED <<classifierVars, poseVars, current_command, command_lock,
                   wpc, msg, cmd, shutdown, histVars,
                   last_msg, pending, passed, log_age, cat_age, ctorVars>>

\* Mutant: cmd is read without taking command_lock.
LoopAcquireNoLock ==
    /\ pc = "acquire"
    /\ pc' = "read"
    /\ UNCHANGED <<classifierVars, poseVars, current_command, command_lock,
                   wpc, msg, twist, cmd, tick_log, tick_pub, pub_result, ticked,
                   shutdown, histVars, twin,
                   obsVars, throttleVars, ctorVars>>

\* "with self.command_lock:" entered.
LoopAcquire ==
    /\ pc = "acquire"
    /\ command_lock = Unlocked
    /\ command_lock' = LoopThread
    /\ pc' = "read"
    /\ UNCHANGED <<classifierVars, poseVars, current_command, wpc, msg,
                   twist, cmd, tick_log, tick_pub, pub_result, ticked, shutdown,
                   histVars, twin,
                   obsVars, throttleVars, ctorVars>>

\* Mutant: the loop consumes the label it read and falls back to "Nothing".
LoopReadConsume ==
    /\ pc = "read"
    /\ cmd' = current_command
    /\ current_command' = "Nothing"
    /\ twin' = [twin EXCEPT !.cmd = twin.current_command, !.current_command = "Nothing"]
    /\ command_lock' = Unlocked
    /\ pc' = "branch"
    /\ tick_reads' = tick_reads + 1
    /\ pending' = 0
    /\ passed' = (pending >= 2)
    /\ UNCHANGED <<classifierVars, poseVars, wpc, msg,
                   twist, tick_log, tick_pub, pub_result, ticked, shutdown, histVars,
                   last_msg, throttleVars, ctorVars>>

\* "cmd = self.current_command", then the with-block is left.
LoopRead ==
    /\ pc = "read"
    /\ cmd' = current_command
    /\ twin' = [twin EXCEPT !.cmd = twin.current_command]
    /\ command_lock' = Unlocked
    /\ pc' = "branch"
    /\ tick_reads' = tick_reads + 1
    /\ pending' = 0
    /\ passed' = (pending >= 2)
    /\ UNCHANGED <<classifierVars, poseVars, current_command, wpc, msg,
                   twist, tick_log, tick_pub, pub_result, ticked, shutdown, histVars,
                   last_msg, throttleVars, ctorVars>>

\* Mutant: the else branch goes on to the next tick without publishing.
LoopBranchUnknownContinue ==
    /\ pc = "branch"
    /\ twist' = motion_twist(cmd)
    /\ tick_log' = motion_log(cmd)
    /\ pc' = IF cmd \in KnownLabels THEN "publish" ELSE "sleep"
    /\ UNCHANGED <<classifierVars, poseVars, current_command, command_lock,
                   wpc, msg, cmd, tick_pub, pub_result, ticked, shutdown, histVars, twin,
                   obsVars, throttleVars, ctorVars>>

\* Mutant: the chain tests self.current_command again instead of cmd.
LoopBranchReread ==
    /\ pc = "branch"
    /\ twist' = motion_twist(current_command)
    /\ tick_log' = motion_log(current_command)
    /\ pc' = "publish"
    /\ UNCHANGED <<classifierVars, poseVars, current_command, command_lock,
                   wpc, msg, cmd, tick_pub, pub_result, ticked, shutdown, histVars, twin,
                   obsVars, throttleVars, ctorVars>>

\* The if/elif chain.
LoopBranch ==
    /\ pc = "branch"
    /\ twist' = motion_twist(cmd)
    /\ tick_log' = motion_log(cmd)
    /\ pc' = "publish"
    /\ UNCHANGED <<classifierVars, poseVars, current_command, command_lock,
                   wpc, msg, cmd, tick_pub, pub_result, ticked, shutdown, histVars, twin,
                   obsVars, throttleVars, ctorVars>>

\* Mutant: the five branches log through one helper, hence one call site.
motion_site_shared(c) == 122

\* The line of the loginfo_throttle call the chain reaches for c.
motion_site(c) ==
    IF c \in {"Stop", "Give_Way"} THEN 122
    ELSE IF c = "Turn_Left" THEN 126
    ELSE IF c = "Turn_Right" THEN 130
    ELSE IF c = "Nothing" THEN 134
    ELSE 138

\* rospy.loginfo_throttle(2.0, ...): the message is emitted when its call
\* site has no entry in the table or the entry is older than the period.
throttle_passes(age) == age = Never \/ age > ThrottlePeriod

\* The if/elif chain together with the table of rospy's throttle.
LoopBranchThrottle ==
    /\ pc = "branch"
    /\ twist' = motion_twist(cmd)
    /\ tick_log' = motion_log(cmd)
    /\ pc' = "publish"
    /\ LET site == motion_site(cmd)
           emit == throttle_passes(log_age[site])
       IN  /\ tick_emitted' = emit
           /\ log_age' = IF emit THEN [log_age EXCEPT ![site] = 0] ELSE log_age
           /\ cat_age' = IF emit THEN [cat_age EXCEPT ![motion_log(cmd).text] = 0]
                         ELSE cat_age
    /\ UNCHANGED <<classifierVars, poseVars, current_command, command_lock,
                   wpc, msg, cmd, tick_pub, pub_result, ticked, shutdown, histVars, twin,
                   obsVars, ctorVars>>

\* One unit of rospy.Time passes; ages beyond the period are not told apart.
Aged(age) == IF age = Never \/ age > ThrottlePeriod THEN age ELSE age + 1

ClockAdvance ==
    /\ log_age' = [s \in CallSites |-> Aged(log_age[s])]
    /\ cat_age' = [k \in LogTexts |-> Aged(cat_age[k])]
    /\ UNCHANGED <<classifierVars, poseVars, current_command, command_lock,
                   wpc, msg, loopVars, shutdown, histVars, twin,
                   obsVars, tick_emitted, ctorVars>>

\* "self.cmd_vel_pub.publish(twist)": the call returns, or raises; nothing in
\* motion_loop catches, so a raise ends the thread.
LoopPublish(raises) ==
    /\ pc = "publish"
    /\ IF raises
       THEN /\ pub_result' = "raised"
            /\ pc' = "crashed"
            /\ UNCHANGED <<tick_pub, twin>>
       ELSE /\ pub_result' = "ok"
            /\ pc' = "sleep"
            /\ tick_pub' = Append(tick_pub, twist)
            /\ twin' = [twin EXCEPT !.tick_pub = Append(@, motion_twist(twin.cmd))]
    /\ UNCHANGED <<classifierVars, poseVars, current_command, command_lock,
                   wpc, msg, twist, cmd, tick_log, ticked, shutdown, histVars,
                   obsVars, throttleVars, ctorVars>>

\* "rate.sleep()": returns at the next tick boundary, or raises
\* (ROSInterruptException on shutdown, ROSTimeMovedBackwardsException when
\* ROS time is set back); line 141 is in no try, so a raise ends the thread
\* whether or not the node is shut down.
LoopSleep(raises) ==
    /\ pc = "sleep"
    /\ pc' = IF raises THEN "interrupted" ELSE "check"
    /\ UNCHANGED <<classifierVars, poseVars, current_command, command_lock,
                   wpc, msg, twist, cmd, tick_log, tick_pub, pub_result, ticked,
                   shutdown, histVars, twin,
                   obsVars, throttleVars, ctorVars>>

\* The process-wide shutdown signal.
Shutdown ==
    /\ ~shutdown
    /\ shutdown' = TRUE
    /\ UNCHANGED <<classifierVars, poseVars, current_command, command_lock,
                   wpc, msg, loopVars, histVars, twin,
                   obsVars, throttleVars, ctorVars>>

\* ---------------------------------------------------------------- constructors

\* The statement at position ctor of the constructors runs: an assignment
\* creates the field, a Subscriber lets its callback be invoked from then on,
\* start() lets motion_loop run.
CtorStep ==
    /\ ctor < CtorDone
    /\ LET st == CtorSteps[ctor]
       IN  /\ ctor' = ctor + 1
           /\ assigned' = IF st.kind = "assign" THEN assigned \cup {st.name} ELSE assigned
           /\ subscribed' = IF st.kind = "assign" THEN subscribed
                            ELSE subscribed \cup {st.name}
           /\ capture_enabled' = IF st.name = "capture_enabled" THEN TRUE
                                 ELSE capture_enabled
           /\ image_count' = IF st.name = "image_count" THEN 0 ELSE image_count
           /\ robot_x' = IF st.name = "robot_x" THEN 0 ELSE robot_x
           /\ robot_y' = IF st.name = "robot_y" THEN 0 ELSE robot_y
           /\ current_command' = IF st.name = "current_command" THEN InitCommand
                                 ELSE current_command
           /\ command_lock' = IF st.name = "command_lock" THEN Unlocked
                              ELSE command_lock
    /\ UNCHANGED <<frame, cls_log, toggle_log, frame_dropped, wpc, msg, loopVars,
                   shutdown, histVars, twin, obsVars, throttleVars, attr_error, tpc>>

\* image_callback invoked while the constructors may still be running: line
\* 60 raises AttributeError when image_count does not exist (nothing in
\* image_callback catches it); line 72 raises it inside the try when
\* debug_interval does not exist; a label published before class_callback
\* is subscribed reaches nobody.
ImageCallbackInit(f) ==
    /\ "image_callback" \in subscribed
    /\ image_count < MaxImages
    /\ IF "image_count" \notin assigned
       THEN /\ attr_error' = "image_count"
            /\ UNCHANGED <<classifierVars, poseVars, current_command, command_lock,
                           wpc, msg, loopVars, shutdown, histVars, twin,
                           obsVars, throttleVars, ctor, assigned, subscribed, tpc>>
       ELSE IF "debug_interval" \notin assigned /\ f.kind \in {"ok", "PublishException"}
       THEN /\ attr_error' = "debug_interval"
            /\ image_count' = image_count + 1
            /\ frame' = "Exception"
            /\ cls_log' = <<"err">>
            /\ frame_dropped' = TRUE
            /\ UNCHANGED <<capture_enabled, toggle_log, poseVars, current_command,
                           command_lock, wpc, msg, loopVars, shutdown, histVars, twin,
                           obsVars, throttleVars, ctor, assigned, subscribed, tpc>>
       ELSE IF "class_callback" \notin subscribed
       THEN /\ image_count' = image_count + 1
            /\ frame' = f.kind
            /\ cls_log' = image_callback_log(image_count', f)
            /\ frame_dropped' = (frame_dropped \/ f.kind # "ok")
            /\ UNCHANGED <<capture_enabled, toggle_log, poseVars, current_command,
                           command_lock, wpc, msg, loopVars, shutdown, histVars, twin,
                           obsVars, throttleVars, ctorVars>>
       ELSE ImageCallback(f)

\* toggle_callback invoked while the constructors may still be running,
\* in the subscriber's thread and without a lock, so line 34 of the
\* constructor can run between its statements. Line 55: the assignment
\* creates capture_enabled when line 34 has not.
ToggleAssignInit(b) ==
    /\ "toggle_callback" \in subscribed
    /\ tpc = "idle"
    /\ tpc' = "log"
    /\ capture_enabled' = b
    /\ assigned' = assigned \cup {"capture_enabled"}
    /\ UNCHANGED <<image_count, frame, cls_log, toggle_log, frame_dropped, poseVars,
                   current_command, command_lock, wpc, msg, loopVars, shutdown,
                   histVars, twin, obsVars, throttleVars, ctor, subscribed, attr_error>>

\* Lines 56-57: the state logged is read back from self.capture_enabled.
ToggleLogInit ==
    /\ tpc = "log"
    /\ tpc' = "idle"
    /\ toggle_log' = IF capture_enabled THEN "ACTIVADA" ELSE "DESACTIVADA"
    /\ UNCHANGED <<capture_enabled, image_count, frame, cls_log, frame_dropped, poseVars,
                   current_command, command_lock, wpc, msg, loopVars, shutdown,
                   histVars, twin, obsVars, throttleVars, ctor, assigned, subscribed,
                   attr_error>>

\* ---------------------------------------------------------------- specifications

\* The values the constructors give the fields; threads at their start.
InitValues ==
    /\ capture_enabled = TRUE
    /\ image_count = 0
    /\ frame = "none"
    /\ cls_log = <<>>
    /\ toggle_log = "none"
    /\ frame_dropped = FALSE
    /\ robot_x = 0
    /\ robot_y = 0
    /\ current_command = InitCommand
    /\ command_lock = Unlocked
    /\ wpc = [w \in Writers |-> "idle"]
    /\ msg = [w \in Writers |-> NoMsg]
    /\ pc = "check"
    /\ twist = ZeroTwist
    /\ cmd = "unbound"
    /\ tick_log = NoLog
    /\ tick_pub = <<>>
    /\ pub_result = "none"
    /\ ticked = FALSE
    /\ shutdown = FALSE
    /\ updated = FALSE
    /\ last_set = InitCommand
    /\ last_msg = "Nothing"
    /\ tick_reads = 0
    /\ pending = 0
    /\ passed = FALSE
    /\ log_age = [s \in CallSites |-> Never]
    /\ cat_age = [k \in LogTexts |-> Never]
    /\ tick_emitted = FALSE
    /\ twin = [capture_enabled |-> TRUE,
               msg |-> [w \in Writers |-> NoMsg],
               current_command |-> InitCommand,
               cmd |-> "unbound",
               tick_pub |-> <<>>]

\* Both constructors have returned.
Init ==
    /\ InitValues
    /\ ctor = CtorDone
    /\ assigned = Attributes
    /\ subscribed = Callbacks
    /\ attr_error = "none"
    /\ tpc = "idle"

\* ImageClassifierNode() is about to execute line 30. A field not in
\* assigned does not exist yet, whatever value its variable shows; an
\* assignment in a constructor or in a callback creates it.
InitCtor ==
    /\ InitValues
    /\ ctor = 1
    /\ assigned = {}
    /\ subscribed = {}
    /\ attr_error = "none"
    /\ tpc = "idle"

Behaviour ==
    \/ \E w \in Writers : ClassAssign(w)
    \/ \E w \in Writers : ClassLogRelease(w)
    \/ \E p \in Poses : odom_callback(p)
    \/ LoopCheck
    \/ LoopAcquire
    \/ LoopRead
    \/ LoopBranch
    \/ \E r \in BOOLEAN : LoopPublish(r)
    \/ \E r \in BOOLEAN : LoopSleep(r)
    \/ Shutdown

\* The behaviour node with /predicted_class as its input.
Next ==
    \/ \E w \in Writers, l \in Labels : Deliver(w, l)
    \/ Behaviour

Spec == Init /\ [][Next]_vars

\* Both nodes: /predicted_class carries what image_callback publishes.
NextSystem ==
    \/ \E f \in Frames : image_count < SystemImages /\ ImageCallback(f)
    \/ \E b \in BOOLEAN : ToggleCallback(b)
    \/ \E b \in BOOLEAN : TwinToggleCallback(b)
    \/ Behaviour

SpecSystem == Init /\ [][NextSystem]_vars

\* The classifier node and the threads of the subscriber that take its
\* labels, in the schedules where motion_loop has not been given a step.
NextClassifier ==
    \/ \E f \in Frames : ImageCallback(f)
    \/ \E b \in BOOLEAN : ToggleCallback(b)
    \/ \E b \in BOOLEAN : TwinToggleCallback(b)
    \/ \E w \in Writers : ClassAssign(w)
    \/ \E w \in Writers : ClassLogRelease(w)

SpecClassifier == Init /\ [][NextClassifier]_vars

\* Labels that reach four of the five branches of the chain ("Nothing" is
\* the initial one).
ThrottleLabels == {"Stop", "Turn_Left", "Pedestrian_Crossing"}

\* The behaviour node with the clock and the throttle table of its log
\* calls; /predicted_class has one publisher.
NextThrottle ==
    \/ \E l \in ThrottleLabels : Deliver(1, l)
    \/ ClassAssign(1)
    \/ ClassLogRelease(1)
    \/ LoopCheck
    \/ LoopAcquire
    \/ LoopRead
    \/ LoopBranchThrottle
    \/ LoopPublish(FALSE)
    \/ \E r \in BOOLEAN : LoopSleep(r)
    \/ ClockAdvance

SpecThrottle == Init /\ [][NextThrottle]_vars

\* Both nodes from the first statement of the constructors on: a callback
\* can be invoked once its Subscriber exists, the loop once its thread is
\* started.
NextInit ==
    \/ CtorStep
    \/ \E f \in Frames : image_count < SystemImages /\ ImageCallbackInit(f)
    \/ \E b \in BOOLEAN : ToggleAssignInit(b)
    \/ ToggleLogInit
    \/ \E p \in Poses : "odom_callback" \in subscribed /\ odom_callback(p)
    \/ \E w \in Writers : "class_callback" \in subscribed /\ ClassAssign(w)
    \/ \E w \in Writers : "class_callback" \in subscribed /\ ClassLogRelease(w)
    \/ "motion_loop" \in subscribed /\ LoopCheck
    \/ "motion_loop" \in subscribed /\ LoopAcquire
    \/ "motion_loop" \in subscribed /\ LoopRead
    \/ "motion_loop" \in subscribed /\ LoopBranch
    \/ \E r \in BOOLEAN : "motion_loop" \in subscribed /\ LoopPublish(r)
    \/ \E r \in BOOLEAN : "motion_loop" \in subscribed /\ LoopSleep(r)
    \/ Shutdown

SpecInit == InitCtor /\ [][NextInit]_vars

\* ---------------------------------------------------------------- claims

\* Positions of motion_loop at which the thread has ended.
LoopEnded == pc \in {"done", "interrupted", "crashed"}

\* The table of the specification, section 4.3.
TableCommand(l) ==
    CASE l \in {"Stop", "Give_Way"} -> <<0, 0>>
      [] l = "Turn_Left" -> <<0, 5>>
      [] l = "Turn_Right" -> <<0, -5>>
      [] l = "Nothing" -> <<2, 0>>
      [] OTHER -> <<0, 0>>

\* C1: on every tick the command published is the table's entry for the
\* label read on that tick, whatever labels and commands came before: Stop and
\* Give_Way give (0.0, 0.0), Turn_Left (0.0, 0.5), Turn_Right (0.0, -0.5),
\* Nothing (0.2, 0.0).
C1_CommandIsFunctionOfLabel ==
    (pub_result = "ok" /\ cmd \in KnownLabels) => tick_pub = <<TableCommand(cmd)>>

\* A tick that read Turn_Right published (0.0, -0.5) while a newer label,
\* Stop, is already stored.
C1_Witness ==
    /\ pub_result = "ok"
    /\ cmd = "Turn_Right"
    /\ tick_pub = <<(<<0, -5>>)>>
    /\ current_command = "Stop"

\* C2: a tick that read a label outside Stop, Give_Way, Turn_Left, Turn_Right,
\* Nothing publishes (0.0, 0.0) and nothing else.
C2_UnknownLabelHalts ==
    (pc \in {"sleep", "check", "done", "interrupted"} /\ ticked /\ cmd \notin KnownLabels)
        => tick_pub = <<(<<0, 0>>)>>

\* A tick read Pedestrian_Crossing and published the halt.
C2_Witness ==
    /\ pc = "sleep"
    /\ cmd = "Pedestrian_Crossing"
    /\ tick_pub = <<(<<0, 0>>)>>

\* C3: as long as no class_callback has assigned current_command, it holds
\* "Nothing" and every command published is (0.2, 0.0).
C3_DefaultIsForward ==
    ~updated =>
        /\ current_command = "Nothing"
        /\ \A i \in 1..Len(tick_pub) : tick_pub[i] = <<2, 0>>
        /\ (pc \in {"branch", "publish", "sleep"} => cmd = "Nothing")

\* The first ticks published (0.2, 0.0) while a label update is delivered but
\* has not been stored yet.
C3_Witness ==
    /\ ~updated
    /\ tick_pub = <<(<<2, 0>>)>>
    /\ pc = "sleep"
    /\ \E w \in Writers : wpc[w] = "lock" /\ msg[w] = "Stop"

\* C4: whenever motion_loop reads current_command, no class_callback is inside
\* its with-block and the value read is the initial "Nothing" or the value
\* stored by the latest class_callback that completed.
C4_ReadIsCompletedSet ==
    [][(pc = "read" /\ pc' = "branch") =>
          /\ \A w \in Writers : wpc[w] # "log"
          /\ cmd' = last_set
          /\ cmd' \in Labels]_vars

\* The loop read a value a class_callback stored, while the other writer
\* waits for the lock with a different label.
C4_Witness ==
    /\ pc = "branch"
    /\ updated
    /\ cmd = "Turn_Left"
    /\ last_set = "Turn_Left"
    /\ \E w \in Writers : wpc[w] = "lock" /\ msg[w] = "Stop"

\* C5: two runs on the same frames and schedule that differ in their
\* /capture_toggle messages publish the same labels and the same velocity
\* commands.
C5_GateIndependence ==
    /\ twin.msg = msg
    /\ twin.current_command = current_command
    /\ twin.cmd = cmd
    /\ twin.tick_pub = tick_pub

\* Capture is disabled in one run and enabled in the other, a classified
\* frame's label is in flight in both and a label of an earlier frame was
\* turned into a command.
C5_Witness ==
    /\ capture_enabled = FALSE
    /\ twin.capture_enabled = TRUE
    /\ frame = "ok"
    /\ \E w \in Writers : msg[w] = "Turn_Left" /\ twin.msg[w] = "Turn_Left"
    /\ tick_pub = <<(<<0, 0>>)>>
    /\ cmd = "Stop"

\* A step of image_callback.
FrameStep == image_count' = image_count + 1

\* C6: a frame that raises in image_callback is logged as an error, invokes no
\* class_callback and leaves current_command as it was; a frame that is
\* classified, also after a dropped one, has its label delivered.
C6_FailedFrameDropped ==
    [][/\ (FrameStep /\ frame' # "ok") =>
            /\ cls_log' # <<>>
            /\ cls_log'[Len(cls_log')] \in {"err", "err_cvbridge"}
            /\ wpc' = wpc
            /\ msg' = msg
            /\ current_command' = current_command
       /\ (FrameStep /\ frame' = "ok") =>
            \E w \in Writers :
                /\ wpc[w] = "idle"
                /\ wpc'[w] = "lock"
                /\ \E i \in 1..Len(labels) : msg'[w] = labels[i]]_vars

\* After a dropped frame the next frame was classified and its label stored.
C6_Witness ==
    /\ frame_dropped
    /\ frame = "ok"
    /\ image_count = 2
    /\ current_command = "Pedestrian_Crossing"

\* C7: when the publish call of a tick raises, the loop logs the failure and
\* goes on to the next tick.
C7_PublishFailureSurvived ==
    pub_result = "raised" => (~LoopEnded /\ tick_log.level = "error")

\* C8: a tick that has reached its end has published exactly one command, and
\* no tick has published more than one.
C8_OnePublishPerTick ==
    /\ Len(tick_pub) <= 1
    /\ (pc \in {"acquire", "read", "branch", "publish"} => Len(tick_pub) = 0)
    /\ ((pc \in {"sleep", "interrupted"} \/ (pc \in {"check", "done"} /\ ticked))
            => Len(tick_pub) = 1)

\* A tick on an unknown label has published once and waits for the boundary
\* while a pose and a label update arrived.
C8_Witness ==
    /\ pc = "sleep"
    /\ cmd = "Pedestrian_Crossing"
    /\ Len(tick_pub) = 1
    /\ robot_x = 1
    /\ \E w \in Writers : wpc[w] = "log"

\* C9: motion_loop ends only when shutdown has been signalled.
C9_EndsOnlyOnShutdown == LoopEnded => shutdown

\* C11: no thread logs while it holds command_lock.
C11_NoLoggingUnderLock ==
    \A w \in Writers : wpc[w] = "log" => command_lock # WriterThread(w)

\* Threads inside a with-block of command_lock.
InCritical ==
    {WriterThread(w) : w \in {x \in Writers : wpc[x] = "log"}}
    \cup (IF pc = "read" THEN {LoopThread} ELSE {})

\* C12: at most one thread is inside a with-block of command_lock, and it is
\* the holder of the lock.
C12_MutualExclusion ==
    /\ Cardinality(InCritical) <= 1
    /\ \A t \in InCritical : command_lock = t
    /\ (InCritical = {} => command_lock = Unlocked)

\* The loop is inside its with-block while every class_callback thread waits
\* for the lock with a message.
C12_Witness ==
    /\ pc = "read"
    /\ command_lock = LoopThread
    /\ \A w \in Writers : wpc[w] = "lock"

\* C17: a tick that read a label outside the known set logs at warning
\* severity, naming the label.
C17_UnknownLabelWarned ==
    (pc \in {"publish", "sleep"} /\ cmd \notin KnownLabels)
        => (tick_log.level = "warn" /\ tick_log.arg = cmd)

\* C18: a step that changes the pose changes neither the label held, the
\* capture flag nor anything of the control loop; a step that changes the
\* label held is a class_callback assignment and leaves pose and capture flag;
\* a step that changes the capture flag leaves label and pose; a step of the
\* control loop leaves all three.
C18_HandlersWriteOwnState ==
    [][/\ (robot_x' # robot_x \/ robot_y' # robot_y) =>
            /\ current_command' = current_command
            /\ capture_enabled' = capture_enabled
            /\ UNCHANGED <<pc, cmd, twist, tick_pub, wpc, msg>>
       /\ (current_command' # current_command) =>
            /\ \E w \in Writers : wpc[w] = "lock" /\ wpc'[w] = "log"
            /\ UNCHANGED <<robot_x, robot_y, capture_enabled, pc>>
       /\ (capture_enabled' # capture_enabled) =>
            /\ UNCHANGED <<robot_x, robot_y, current_command, pc, wpc>>
       /\ (pc' # pc) =>
            /\ UNCHANGED <<robot_x, robot_y, current_command, capture_enabled>>]_vars

\* Pose, label and capture flag have all been written by their handlers and a
\* tick published the command of the label.
C18_Witness ==
    /\ robot_x = 1
    /\ robot_y = 2
    /\ capture_enabled = FALSE
    /\ current_command = "Turn_Left"
    /\ cmd = "Turn_Left"
    /\ tick_pub = <<(<<0, 5>>)>>

\* C13: a tick reads current_command exactly once; cmd changes only in that
\* read, so a label update landing after it leaves cmd alone; the branch and
\* the command published are those of the table for the cmd that was read,
\* whatever current_command holds by then.
C13_SingleSnapshot ==
    [][/\ (pc' \in {"branch", "publish", "sleep"} => tick_reads' = 1)
       /\ (cmd' # cmd => pc = "read" /\ cmd' = current_command)
       /\ (pc = "branch" /\ pc' # pc =>
              /\ twist' = TableCommand(cmd)
              /\ tick_log'.text = motion_log(cmd).text)
       /\ (pc = "publish" /\ pc' = "sleep" =>
              tick_pub' = <<TableCommand(cmd)>>)]_vars

\* A tick that read "Turn_Left" published the left turn although the label
\* was overwritten by "Stop" in between.
C13_Witness ==
    /\ pc = "sleep"
    /\ tick_reads = 1
    /\ cmd = "Turn_Left"
    /\ current_command = "Stop"
    /\ tick_pub = <<(<<0, 5>>)>>

\* C14: an update overwrites current_command with the label of its message,
\* and the read of a tick returns the label of the most recently completed
\* update ("Nothing" before the first one); updates overwritten before a read
\* are never seen, so the command published is the table's for that label.
C14_LatestValue ==
    [][/\ \A w \in Writers :
            (wpc[w] = "lock" /\ wpc'[w] = "log" /\ msg[w] # NoMsg) =>
                current_command' = msg[w]
       /\ (pc = "read" /\ pc' = "branch" => cmd' = last_msg)
       /\ (pc = "publish" /\ pc' = "sleep" /\ cmd = last_msg =>
              tick_pub' = <<TableCommand(last_msg)>>)]_vars

\* Two updates with different labels completed between two reads; the tick
\* saw only the later one, "Turn_Right", and published the right turn.
C14_Witness ==
    /\ passed
    /\ pc = "sleep"
    /\ cmd = "Turn_Right"
    /\ last_msg = "Turn_Right"
    /\ tick_pub = <<(<<0, -5>>)>>

\* The last frame made image_callback emit its diagnostic log line.
DiagnosticLogged(log) == \E i \in 1..Len(log) : log[i] = "info"

\* C16 as stated: the last frame emitted the diagnostic line exactly when its
\* counter value is a multiple of debug_interval.
C16_EveryNthFrameLogged ==
    image_count > 0 => (DiagnosticLogged(cls_log) <=> image_count % debug_interval = 0)

\* C16 amended: each delivered frame adds exactly one to image_count, and it
\* emits the diagnostic line exactly when the new counter value is a multiple
\* of debug_interval and the frame was classified (nothing before the test of
\* line 72 raised).
C16_NthClassifiedFrameLogged ==
    [][image_count' # image_count =>
          /\ image_count' = image_count + 1
          /\ DiagnosticLogged(cls_log') <=>
                (/\ image_count' % debug_interval = 0
                 /\ frame' \in {"ok", "PublishException"})]_vars

\* The tenth frame was classified and logged.
C16_Witness ==
    /\ image_count = debug_interval
    /\ frame = "ok"
    /\ cls_log = <<"info">>

\* C15: a tick's message is emitted exactly when no message of its own
\* category (branch) was emitted within the last ThrottlePeriod seconds, so
\* two messages of one category are more than the period apart, and what
\* other categories emitted has no part in the decision.
C15_ThrottlePerCategory ==
    [][(pc = "branch" /\ pc' = "publish") =>
          LET k == motion_log(cmd).text
          IN  /\ tick_emitted' <=> (cat_age[k] = Never \/ cat_age[k] > ThrottlePeriod)
              /\ \A j \in LogTexts \ {k} : cat_age'[j] = cat_age[j]]_vars

\* The left-turn message is emitted one second after the halt message,
\* inside the window in which halt messages are suppressed.
C15_Witness ==
    /\ pc = "publish"
    /\ cmd = "Turn_Left"
    /\ tick_emitted
    /\ cat_age["PARAR"] = 1
    /\ cat_age["GIRAR IZQUIERDA"] = 0

\* The lock is held only by a thread inside its with-block, which leaves the
\* block by its next step.
LockHeldInsideBlock ==
    /\ (command_lock = LoopThread => pc = "read")
    /\ \A w \in Writers : command_lock = WriterThread(w) => wpc[w] = "log"

\* C19: command_lock is never left held, and as long as shutdown has not been
\* signalled the control thread is at a position of a tick, from which fair
\* scheduling takes it to the end of that tick and into the next.
C19_LockProgress ==
    /\ LockHeldInsideBlock
    /\ (~shutdown => pc \in {"check", "acquire", "read", "branch", "publish", "sleep"})

\* C20: every callback whose Subscriber exists, and the control thread once
\* started, finds all the fields it uses assigned, so that no callback has
\* met a missing field.
C20_InitializedBeforeUse ==
    /\ \A cb \in subscribed : Uses(cb) \subseteq assigned
    /\ attr_error = "none"

====
